---- MODULE Spec2Model ----
(***************************************************************************)
(* Transportation problem of src/main.py: solve_problem_using_pulp builds  *)
(* the LP from the data file, hands it to the engine, prints the result    *)
(* tables and calls the two print_conclusions_* functions row by row.      *)
(* Strings the program builds and parses (constraint and variable names,   *)
(* location codes) are sequences of one-character strings.                 *)
(***************************************************************************)
EXTENDS Integers, Sequences, FiniteSets, TLC

VARIABLES
    data,               \* the dictionary json.load returns (main.py:14)
    pc,                 \* position in solve_problem_using_pulp
    vQuantityExchanged, \* keys of the decision-variable dictionary, in creation order
    objective,          \* objective function: lane -> coefficient
    constraints,        \* model.constraints, in insertion order
    fixedLookups,       \* pairs for which pFixedTransportation[s, c] was evaluated
    error,              \* exception that ended the run ("none" while running)
    status,             \* LpStatus[model.status] after model.solve
    varValue,           \* primal values the engine returned (Optimal solve)
    tables,             \* sensitivity tables printed so far
    calls,              \* print_conclusions_* functions called so far
    idx,                \* index of the next row of the table being walked
    row,                \* the row just read
    out,                \* what the interpreter call for that row printed / raised
    codes,              \* name round trip: the (source, customer) codes encoded
    encoded,            \* name round trip: the name the builder's format gives
    decoded             \* name round trip: what the interpreter's parse recovers

vars == <<data, pc, vQuantityExchanged, objective, constraints, fixedLookups,
          error, status, varValue, tables, calls, idx, row, out, codes, encoded, decoded>>

roundTrip == <<codes, encoded, decoded>>

----------------------------------------------------------------------------
(* Bounds of the explored inputs *)

MaxQty == 2
MaxLanes == 2
MaxLen == 4

(* Location codes of the explored data files *)
Gou == <<"G", "o", "u">>
Ams == <<"A", "m", "s">>
Bern == <<"B", "e", "r", "n">>

SourceCodes == {Gou, Bern}
CustomerCodes == {Gou, Ams}

Range(f) == {f[i] : i \in DOMAIN f}

----------------------------------------------------------------------------
(* Names the builder gives to constraints and variables *)

\* "c01_production_%s" % s  (main.py:63)
ProductionName(s) == <<"c", "0", "1", "_", "p", "r", "o", "d", "u", "c", "t", "i", "o", "n", "_">> \o s

\* "c02_demand_%s" % c  (main.py:71)
DemandName(c) == <<"c", "0", "2", "_", "d", "e", "m", "a", "n", "d", "_">> \o c

\* "c03_fixed_%s_%s" % (s, c)  (main.py:80)
FixedName(s, c) == <<"c", "0", "3", "_", "f", "i", "x", "e", "d", "_">> \o s \o <<"_">> \o c

\* LpVariable.dicts("quantity_in_tons", ...) names the variable of key (s, c)
\* "quantity_in_tons_" + str((s, c)) with the blank replaced by "_":
\* quantity_in_tons_('Gou',_'Ams')  (main.py:44-48)
VariableName(s, c) ==
    <<"q", "u", "a", "n", "t", "i", "t", "y", "_", "i", "n", "_", "t", "o", "n", "s", "_", "(">> \o <<"'">> \o s \o <<"'", ",", "_", "'">> \o c \o <<"'", ")">>

----------------------------------------------------------------------------
(* Python string primitives used by the interpreters *)

\* str[2:3]: the third character, or the empty string
Slice2to3(str) == IF Len(str) >= 3 THEN <<str[3]>> ELSE <<>>

\* str[-3:]: the last three characters, or the whole string when shorter
LastThree(str) == IF Len(str) <= 3 THEN str ELSE SubSeq(str, Len(str) - 2, Len(str))

\* int(text): the value of a one-digit text, -1 standing for ValueError
IntOf(text) ==
    IF Len(text) # 1 THEN -1
    ELSE CASE text[1] = "0" -> 0
           [] text[1] = "1" -> 1
           [] text[1] = "2" -> 2
           [] text[1] = "3" -> 3
           [] text[1] = "4" -> 4
           [] text[1] = "5" -> 5
           [] text[1] = "6" -> 6
           [] text[1] = "7" -> 7
           [] text[1] = "8" -> 8
           [] text[1] = "9" -> 9
           [] OTHER -> -1

\* re.findall(r"(?<=[']).{3}(?=['])", str): left to right, non-overlapping, every
\* three characters that follow a quote and are followed by a quote
RECURSIVE FindAllFrom(_, _)
FindAllFrom(str, i) ==
    IF i + 2 > Len(str) THEN <<>>
    ELSE IF i > 1 /\ str[i - 1] = "'" /\ i + 3 <= Len(str) /\ str[i + 3] = "'"
         THEN <<SubSeq(str, i, i + 2)>> \o FindAllFrom(str, i + 3)
         ELSE FindAllFrom(str, i + 1)

FindAll(str) == FindAllFrom(str, 1)

Abs(n) == IF n < 0 THEN -n ELSE n

----------------------------------------------------------------------------
(* The sensitivity interpreters *)

\* One printed sentence: which sentence, the direction, the amount and the
\* location(s) it names
Statement(phrase, direction, amount, places) ==
    [phrase |-> phrase, direction |-> direction, amount |-> amount, places |-> places]

\* the if / elif / else on the sign shared by all three branches
Directed(phrase, price, places) ==
    IF price < 0 THEN Statement(phrase, "reduced by", Abs(price), places)
    ELSE IF price > 0 THEN Statement(phrase, "increased in", price, places)
    ELSE Statement(phrase, "remain equal", 0, places)

\* raised: the exception the call ends with ("none"), printed: its sentences
Returned(printed) == [raised |-> "none", printed |-> printed]
Raised(exception) == [raised |-> exception, printed |-> <<>>]

\* Slip: the suffix taken one character too long
LocationLastFour(constraint_name) ==
    IF Len(constraint_name) <= 4 THEN constraint_name
    ELSE SubSeq(constraint_name, Len(constraint_name) - 3, Len(constraint_name))

\* Slip: the two sentences of the source and the customer branch exchanged
print_conclusions_constraints_exchanged(constraint_name, shadow_price, sources) ==
    LET constraint_number == IntOf(Slice2to3(constraint_name))
        location == LastThree(constraint_name)
    IN  IF constraint_number < 0 THEN Raised("ValueError")
        ELSE IF constraint_number <= 2 /\ location \in Range(sources)
             THEN Returned(<<Directed("additional ton supply at", shadow_price, <<location>>)>>)
        ELSE IF constraint_number <= 2
             THEN Returned(<<Directed("additional ton available in", shadow_price, <<location>>)>>)
        ELSE Returned(<<>>)

\* Slip: the fixed-flow family narrated like a demand limit
print_conclusions_constraints_family3(constraint_name, shadow_price, sources) ==
    LET constraint_number == IntOf(Slice2to3(constraint_name))
        location == LastThree(constraint_name)
    IN  IF constraint_number < 0 THEN Raised("ValueError")
        ELSE IF constraint_number <= 2 /\ location \in Range(sources)
             THEN Returned(<<Directed("additional ton available in", shadow_price, <<location>>)>>)
        ELSE IF constraint_number <= 3
             THEN Returned(<<Directed("additional ton supply at", shadow_price, <<location>>)>>)
        ELSE Returned(<<>>)

\* Slip: source and customer read from the list in the wrong order
print_conclusions_variables_exchanged(variable_name, reduced_cost) ==
    LET list_source_customer == FindAll(variable_name)
    IN  IF Len(list_source_customer) < 2 THEN Raised("IndexError")
        ELSE Returned(<<Directed("ton supply from", reduced_cost,
                                 <<list_source_customer[2], list_source_customer[1]>>)>>)

\* int(str(constraint_name)[2:3])  (main.py:157)
ConstraintNumber(constraint_name) == IntOf(Slice2to3(constraint_name))

\* str(constraint_name)[-3:]  (main.py:158)
Location(constraint_name) == LastThree(constraint_name)

print_conclusions_constraints_sensibility_analysis(constraint_name, shadow_price, sources) ==
    LET constraint_number == ConstraintNumber(constraint_name)
        location == Location(constraint_name)
    IN  IF constraint_number < 0 THEN Raised("ValueError")
        ELSE IF constraint_number <= 2 /\ location \in Range(sources)
             THEN Returned(<<Directed("additional ton available in", shadow_price, <<location>>)>>)
        ELSE IF constraint_number <= 2
             THEN Returned(<<Directed("additional ton supply at", shadow_price, <<location>>)>>)
        ELSE Returned(<<>>)

print_conclusions_variables_sensibility_analysis(variable_name, reduced_cost) ==
    LET list_source_customer == FindAll(variable_name)
    IN  IF Len(list_source_customer) < 2 THEN Raised("IndexError")
        ELSE Returned(<<Directed("ton supply from", reduced_cost,
                                 <<list_source_customer[1], list_source_customer[2]>>)>>)

----------------------------------------------------------------------------
(* The data file *)

\* Dictionaries with at most n keys out of keys and values out of values
Dictionaries(keys, values, n) ==
    UNION {[K -> values] : K \in {k \in SUBSET keys : Cardinality(k) <= n}}

Pairs == SourceCodes \X CustomerCodes

\* The location lists, capacities, unit costs and fixed quantities of the explored files
SourceLists == {<<Gou>>, <<Gou, Bern>>}
CustomerLists == {<<Ams>>, <<Ams, Gou>>}
Capacities == {MaxQty}
Demands == 1..MaxQty
Tariff == [p \in Pairs |-> IF p[1] = Gou THEN 1 ELSE 2]
FixedQuantities == {0, 1}

\* for s in sSources for c in sCustomers, in that order
Product(sources, customers) ==
    [k \in 1..(Len(sources) * Len(customers)) |->
        <<sources[((k - 1) \div Len(customers)) + 1],
          customers[((k - 1) % Len(customers)) + 1]>>]

\* List with the available combinations of sources and customers (main.py:33)
sSources_Customers(d) == DOMAIN d.pTransportationCosts

\* ... for s in sSources for c in sCustomers if (s, c) in sSources_Customers
\* (main.py:46, 53, 61, 69, 77, 111)
Combinations(d) ==
    SelectSeq(Product(d.sSources, d.sCustomers), LAMBDA p : p \in sSources_Customers(d))

DataFiles ==
    {d \in [sSources : SourceLists,
            sCustomers : CustomerLists,
            pSourceProduction : Dictionaries(SourceCodes, Capacities, Cardinality(SourceCodes)),
            pCustomerDemand : Dictionaries(CustomerCodes, Demands, Cardinality(CustomerCodes)),
            pTransportationCosts : {[k \in K |-> Tariff[k]] :
                                       K \in {k \in SUBSET Pairs : Cardinality(k) <= MaxLanes}},
            pFixedTransportation : Dictionaries(Pairs, FixedQuantities, MaxLanes)] :
        /\ DOMAIN d.pSourceProduction \subseteq Range(d.sSources)
        /\ DOMAIN d.pCustomerDemand \subseteq Range(d.sCustomers)
        /\ Combinations(d) # <<>>}

----------------------------------------------------------------------------
(* The formulation builder *)

NoRow == [table |-> "none", name |-> <<>>, level |-> 0, price |-> 0]
NoCall == [called |-> "none", raised |-> "none", printed |-> <<>>]

Init ==
    /\ data \in DataFiles
    /\ pc = "variables"
    /\ vQuantityExchanged = <<>>
    /\ objective = <<>>
    /\ constraints = <<>>
    /\ fixedLookups = {}
    /\ error = "none"
    /\ status = "none"
    /\ varValue = <<>>
    /\ tables = {}
    /\ calls = {}
    /\ idx = 0
    /\ row = NoRow
    /\ out = NoCall
    /\ codes = <<>>
    /\ encoded = <<>>
    /\ decoded = <<>>

\* A constraint: name, the variables summed on the left, the sense, the right side
Constraint(name, lanes, sense, rhs) ==
    [name |-> name, lanes |-> lanes, sense |-> sense, rhs |-> rhs]

\* The keys LpVariable.dicts is given (main.py:44-48)
VariableKeys(d) == Combinations(d)

\* pTransportationCosts[s, c] * vQuantityExchanged[s, c] over the lanes (main.py:51-54)
ObjectiveTerms(d) ==
    [l \in Range(Combinations(d)) |-> d.pTransportationCosts[l]]

\* main.py:44-54
CreateVariablesAndObjective ==
    /\ pc = "variables"
    /\ vQuantityExchanged' = VariableKeys(data)
    /\ objective' = ObjectiveTerms(data)
    /\ pc' = "production"
    /\ UNCHANGED <<data, constraints, fixedLookups, error, status, varValue,
                   tables, calls, idx, row, out, roundTrip>>

\* Number of leading elements of seq that are keys of dict
RECURSIVE KnownPrefix(_, _, _)
KnownPrefix(seq, dict, i) ==
    IF i > Len(seq) \/ seq[i] \notin DOMAIN dict THEN i - 1
    ELSE KnownPrefix(seq, dict, i + 1)

\* Slip: the production limit written with the sense of the demand limit
ProductionLimitAsDemand(d, s) ==
    Constraint(ProductionName(s),
               {l \in Range(Combinations(d)) : l[1] = s},
               ">=", d.pSourceProduction[s])

\* lpSum([vQuantityExchanged[s, c] for c in sCustomers if (s, c) in sSources_Customers])
\*   <= pSourceProduction[s], "c01_production_%s" % s   (main.py:60-64)
ProductionLimit(d, s) ==
    Constraint(ProductionName(s),
               {l \in Range(Combinations(d)) : l[1] = s},
               "<=", d.pSourceProduction[s])

\* lpSum([vQuantityExchanged[s, c] for s in sSources if (s, c) in sSources_Customers])
\*   >= pCustomerDemand[c], "c02_demand_%s" % c   (main.py:68-72)
DemandLimit(d, c) ==
    Constraint(DemandName(c),
               {l \in Range(Combinations(d)) : l[2] = c},
               ">=", d.pCustomerDemand[c])

\* vQuantityExchanged[s, c] == pFixedTransportation[s, c], "c03_fixed_%s_%s" % (s, c)
\* (main.py:78-81)
FixedFlow(d, l) ==
    Constraint(FixedName(l[1], l[2]), {l}, "==", d.pFixedTransportation[l])

\* main.py:59-64; pSourceProduction[s] of a source without an entry raises KeyError
\* after the constraints of the sources before it were added
ProductionLimits ==
    /\ pc = "production"
    /\ LET n == KnownPrefix(data.sSources, data.pSourceProduction, 1)
       IN  /\ constraints' = constraints \o [i \in 1..n |-> ProductionLimit(data, data.sSources[i])]
           /\ IF n < Len(data.sSources)
              THEN pc' = "failed" /\ error' = "KeyError"
              ELSE pc' = "demand" /\ error' = error
    /\ UNCHANGED <<data, vQuantityExchanged, objective, fixedLookups, status, varValue,
                   tables, calls, idx, row, out, roundTrip>>

\* main.py:67-72
DemandLimits ==
    /\ pc = "demand"
    /\ LET n == KnownPrefix(data.sCustomers, data.pCustomerDemand, 1)
       IN  /\ constraints' = constraints \o [i \in 1..n |-> DemandLimit(data, data.sCustomers[i])]
           /\ IF n < Len(data.sCustomers)
              THEN pc' = "failed" /\ error' = "KeyError"
              ELSE pc' = "fixed" /\ error' = error
    /\ UNCHANGED <<data, vQuantityExchanged, objective, fixedLookups, status, varValue,
                   tables, calls, idx, row, out, roundTrip>>

\* Slip: the membership test left out of the condition, every pair is looked up
FixedCandidatesUnguarded(d) == Product(d.sSources, d.sCustomers)

\* The pairs for which the condition of main.py:77 reaches pFixedTransportation[s, c]:
\* "and" evaluates it only when (s, c) in sSources_Customers holds
FixedCandidates(d) == Combinations(d)

\* pFixedTransportation[s, c] as a condition: a number is true unless it is zero
Truthy(value) == value # 0

\* main.py:75-81; pFixedTransportation[s, c] of a lane without an entry raises KeyError
FixedFlows ==
    /\ pc = "fixed"
    /\ LET cand == FixedCandidates(data)
           n == KnownPrefix(cand, data.pFixedTransportation, 1)
           kept == SelectSeq(SubSeq(cand, 1, n), LAMBDA l : Truthy(data.pFixedTransportation[l]))
       IN  /\ constraints' = constraints \o [i \in 1..Len(kept) |-> FixedFlow(data, kept[i])]
           /\ fixedLookups' = {cand[i] : i \in 1..(IF n < Len(cand) THEN n + 1 ELSE n)}
           /\ IF n < Len(cand)
              THEN pc' = "failed" /\ error' = "KeyError"
              ELSE pc' = "solve" /\ error' = error
    /\ UNCHANGED <<data, vQuantityExchanged, objective, status, varValue,
                   tables, calls, idx, row, out, roundTrip>>

----------------------------------------------------------------------------
(* The engine behind model.solve(solver): what the program may get back *)

\* lowBound=0 (main.py:47)
lowBound == 0

\* Dual values and reduced costs the engine may report
Prices == {-1, 0, 1}

RECURSIVE Total(_, _)
Total(x, lanes) ==
    IF lanes = {} THEN 0
    ELSE LET l == CHOOSE m \in lanes : TRUE
         IN  x[l] + Total(x, lanes \ {l})

RECURSIVE Weighted(_, _, _)
Weighted(x, coef, lanes) ==
    IF lanes = {} THEN 0
    ELSE LET l == CHOOSE m \in lanes : TRUE
         IN  coef[l] * x[l] + Weighted(x, coef, lanes \ {l})

Satisfies(x, con) ==
    CASE con.sense = "<=" -> Total(x, con.lanes) <= con.rhs
      [] con.sense = ">=" -> Total(x, con.lanes) >= con.rhs
      [] OTHER -> Total(x, con.lanes) = con.rhs

\* Values within the variables' bounds (no variable exceeds the largest capacity)
Assignments == [Range(vQuantityExchanged) -> lowBound..MaxQty]

Feasible == {x \in Assignments : \A i \in DOMAIN constraints : Satisfies(x, constraints[i])}

Minimal == {x \in Feasible :
              \A y \in Feasible :
                  Weighted(x, objective, DOMAIN objective) <= Weighted(y, objective, DOMAIN objective)}

\* The engine is given no time limit (main.py:93): it answers Optimal with a
\* least-cost feasible point when there is one and Infeasible when there is none
\* (every variable is in a production limit, so the problem is never unbounded)
Outcomes == IF Feasible # {} THEN {"Optimal"} ELSE {"Infeasible"}

\* main.py:100
Solve ==
    /\ pc = "solve"
    /\ \E st \in Outcomes :
          /\ status' = st
          /\ IF st = "Optimal"
             THEN varValue' \in Minimal
             ELSE varValue' = <<>>
    /\ pc' = "results"
    /\ UNCHANGED <<data, vQuantityExchanged, objective, constraints, fixedLookups, error,
                   tables, calls, idx, row, out, roundTrip>>

\* Slacks and values left in the model by a solve that did not end Optimal: zero or not
Leftovers == {0, 1}

\* c.slack of a constraint at the returned point: zero exactly when it is binding
Slack(x, con) == con.rhs - Total(x, con.lanes)

\* (c.slack, c.pi) the program may read for a constraint: at an optimum the slack
\* of the returned point, and a zero dual value on a constraint that is not binding;
\* after any other outcome whatever the engine left
ConstraintReadings(con) ==
    IF status = "Optimal"
    THEN {<<Slack(varValue, con), p>> : p \in IF Slack(varValue, con) = 0 THEN Prices ELSE {0}}
    ELSE Leftovers \X Prices

\* (v.varValue, v.dj) the program may read for a variable: at an optimum the value
\* of the returned point, and a zero reduced cost on a variable above its bound
VariableReadings(l) ==
    IF status = "Optimal"
    THEN {<<varValue[l], p>> : p \in IF varValue[l] > lowBound THEN {0} ELSE Prices}
    ELSE Leftovers \X Prices

----------------------------------------------------------------------------
(* Printing the results: main.py:102-151 *)

Row(table, name, level, price) ==
    [table |-> table, name |-> name, level |-> level, price |-> price]

Call(function, result) ==
    [called |-> function, raised |-> result.raised, printed |-> result.printed]

\* main.py:103-119: status, total cost and the positive quantities
PrintSolution ==
    /\ pc = "results"
    /\ tables' = tables \cup {"Quantity exchanged"}
    /\ pc' = "constraint rows"
    /\ idx' = 1
    /\ UNCHANGED <<data, vQuantityExchanged, objective, constraints, fixedLookups, error,
                   status, varValue, calls, row, out, roundTrip>>

\* df[df['Slack'] == 0].apply(...): the rows the constraint interpreter is given
\* (main.py:130-134)
SelectedConstraint(slack) == slack = 0

\* df[df['Value'] == 0].apply(...): the rows the variable interpreter is given
\* (main.py:146-150)
SelectedVariable(value) == value = 0

\* main.py:122-134, one row of model.constraints.items(): the row of the table and,
\* when the row is selected, the interpreter's call
ConstraintRow ==
    /\ pc = "constraint rows"
    /\ idx <= Len(constraints)
    /\ \E reading \in ConstraintReadings(constraints[idx]) :
          LET result == print_conclusions_constraints_sensibility_analysis(
                            constraints[idx].name, reading[2], data.sSources)
              selected == SelectedConstraint(reading[1])
          IN  /\ row' = Row("constraints", constraints[idx].name, reading[1], reading[2])
              /\ tables' = tables \cup {"constraints"}
              /\ out' = IF selected THEN Call("constraints", result) ELSE NoCall
              /\ calls' = IF selected THEN calls \cup {"constraints"} ELSE calls
              /\ IF selected /\ result.raised # "none"
                 THEN pc' = "failed" /\ error' = result.raised /\ idx' = idx
                 ELSE /\ error' = error
                      /\ IF idx < Len(constraints)
                         THEN pc' = pc /\ idx' = idx + 1
                         ELSE pc' = "variable rows" /\ idx' = 1
    /\ UNCHANGED <<data, vQuantityExchanged, objective, constraints, fixedLookups,
                   status, varValue, roundTrip>>

\* main.py:138-150, one row of model.variables()
VariableRow ==
    /\ pc = "variable rows"
    /\ idx <= Len(vQuantityExchanged)
    /\ \E reading \in VariableReadings(vQuantityExchanged[idx]) :
          LET l == vQuantityExchanged[idx]
              name == VariableName(l[1], l[2])
              result == print_conclusions_variables_sensibility_analysis(name, reading[2])
              selected == SelectedVariable(reading[1])
          IN  /\ row' = Row("variables", name, reading[1], reading[2])
              /\ tables' = tables \cup {"variables"}
              /\ out' = IF selected THEN Call("variables", result) ELSE NoCall
              /\ calls' = IF selected THEN calls \cup {"variables"} ELSE calls
              /\ IF selected /\ result.raised # "none"
                 THEN pc' = "failed" /\ error' = result.raised /\ idx' = idx
                 ELSE /\ error' = error
                      /\ IF idx < Len(vQuantityExchanged)
                         THEN pc' = pc /\ idx' = idx + 1
                         ELSE pc' = "done" /\ idx' = idx
    /\ UNCHANGED <<data, vQuantityExchanged, objective, constraints, fixedLookups,
                   status, varValue, roundTrip>>

Next ==
    \/ CreateVariablesAndObjective
    \/ ProductionLimits
    \/ DemandLimits
    \/ FixedFlows
    \/ Solve
    \/ PrintSolution
    \/ ConstraintRow
    \/ VariableRow

Spec == Init /\ [][Next]_vars

----------------------------------------------------------------------------
(* Name round trip: the builder's formats followed by the interpreters' parses, *)
(* for location codes of every length up to MaxLen                              *)

Letters == {"a", "b"}
NameCodes == UNION {[1..n -> Letters] : n \in 1..MaxLen}

InitNames ==
    /\ codes \in NameCodes \X NameCodes
    /\ encoded = <<>>
    /\ decoded = <<>>
    /\ pc = "names"
    /\ data = <<>>
    /\ vQuantityExchanged = <<>>
    /\ objective = <<>>
    /\ constraints = <<>>
    /\ fixedLookups = {}
    /\ error = "none"
    /\ status = "none"
    /\ varValue = <<>>
    /\ tables = {}
    /\ calls = {}
    /\ idx = 0
    /\ row = NoRow
    /\ out = NoCall

pipeline == <<data, vQuantityExchanged, objective, constraints, fixedLookups, error,
              status, varValue, tables, calls, idx, row, out>>

\* main.py:63 then main.py:157-158
NameProductionLimit ==
    /\ pc = "names"
    /\ encoded' = ProductionName(codes[1])
    /\ decoded' = [number |-> ConstraintNumber(encoded'), location |-> Location(encoded')]
    /\ pc' = "production limit named"
    /\ UNCHANGED <<codes, pipeline>>

\* main.py:71 then main.py:157-158
NameDemandLimit ==
    /\ pc = "names"
    /\ encoded' = DemandName(codes[2])
    /\ decoded' = [number |-> ConstraintNumber(encoded'), location |-> Location(encoded')]
    /\ pc' = "demand limit named"
    /\ UNCHANGED <<codes, pipeline>>

\* main.py:44-48 then main.py:186
NameVariable ==
    /\ pc = "names"
    /\ encoded' = VariableName(codes[1], codes[2])
    /\ decoded' = [list_source_customer |-> FindAll(encoded')]
    /\ pc' = "variable named"
    /\ UNCHANGED <<codes, pipeline>>

NextNames ==
    \/ NameProductionLimit
    \/ NameDemandLimit
    \/ NameVariable

SpecNames == InitNames /\ [][NextNames]_vars

----------------------------------------------------------------------------
(* Properties *)

\* The builder ran to its end (a later failure is an interpreter's)
BuildCompleted ==
    \/ pc \in {"solve", "results", "constraint rows", "variable rows", "done"}
    \/ pc = "failed" /\ error # "KeyError"

\* The lanes of the data file between declared locations
DeclaredLanes ==
    {l \in DOMAIN data.pTransportationCosts :
        l[1] \in Range(data.sSources) /\ l[2] \in Range(data.sCustomers)}

Named(name) == {i \in DOMAIN constraints : constraints[i].name = name}

\* C1: after a solve that did not end Optimal neither sensitivity table is
\* produced and neither interpreter is called.
NoInterpretationUnlessOptimal ==
    status \notin {"none", "Optimal"} =>
        /\ tables \cap {"constraints", "variables"} = {}
        /\ calls = {}

\* C2: a lane gets a fixed-flow constraint exactly when its pFixedTransportation
\* entry is present and non-zero; with the entry zero or absent the builder adds
\* none and completes normally; an Optimal flow equals every non-zero fixed value.
FixedFlowExactlyWhereNonZero ==
    /\ pc \notin {"variables", "production", "demand", "fixed"}
    /\ Range(data.sSources) \subseteq DOMAIN data.pSourceProduction
    /\ Range(data.sCustomers) \subseteq DOMAIN data.pCustomerDemand
    => /\ error # "KeyError"
       /\ \A l \in DeclaredLanes :
             /\ Named(FixedName(l[1], l[2])) # {}
                    <=> (l \in DOMAIN data.pFixedTransportation /\ data.pFixedTransportation[l] # 0)
             /\ \A i \in Named(FixedName(l[1], l[2])) :
                    constraints[i] = Constraint(FixedName(l[1], l[2]), {l}, "==",
                                                data.pFixedTransportation[l])
             /\ (status = "Optimal" /\ l \in DOMAIN data.pFixedTransportation
                     /\ data.pFixedTransportation[l] # 0)
                    => varValue[l] = data.pFixedTransportation[l]

\* C3: a pair that is not a key of pTransportationCosts has no decision variable,
\* no objective term, no place in any constraint's sum, no fixed-flow constraint,
\* and its pFixedTransportation entry is never looked up.
NonLanesAbsent ==
    \A p \in Pairs \ DOMAIN data.pTransportationCosts :
        /\ p \notin Range(vQuantityExchanged)
        /\ p \notin DOMAIN objective
        /\ \A i \in DOMAIN constraints : p \notin constraints[i].lanes
        /\ Named(FixedName(p[1], p[2])) = {}
        /\ p \notin fixedLookups

\* C3 witness: the builder finished on a file whose pFixedTransportation has a
\* non-zero entry for a pair of declared locations that is no lane.
NonLaneFixedEntryPassedOver ==
    /\ pc = "solve"
    /\ fixedLookups # {}
    /\ \E p \in Pairs \ DOMAIN data.pTransportationCosts :
          /\ p[1] \in Range(data.sSources)
          /\ p[2] \in Range(data.sCustomers)
          /\ p \in DOMAIN data.pFixedTransportation
          /\ data.pFixedTransportation[p] # 0

\* C4: the lanes of the built model are the keys of the cost table: (s, c) has a
\* decision variable and the objective term cost[s, c] * quantity[s, c] if and
\* only if it is a key of pTransportationCosts, whatever sSources and sCustomers list.
LanesAreCostKeys ==
    pc # "variables" =>
        /\ Range(vQuantityExchanged) = DOMAIN data.pTransportationCosts
        /\ objective = data.pTransportationCosts

\* C5: the built model has exactly one production limit per source (the sum over
\* the lanes of s <= Capacity[s]) and exactly one demand limit per customer (the
\* sum over the lanes into c >= Demand[c]), so that every Optimal point keeps the
\* flow out of each source within its capacity, the flow into each customer at
\* least its demand, and every flow >= 0.
OneLimitPerLocation ==
    BuildCompleted =>
        /\ \A s \in Range(data.sSources) :
              /\ Cardinality(Named(ProductionName(s))) = 1
              /\ \A i \in Named(ProductionName(s)) :
                    constraints[i] = Constraint(ProductionName(s),
                                                {l \in DeclaredLanes : l[1] = s},
                                                "<=", data.pSourceProduction[s])
              /\ status = "Optimal" =>
                    Total(varValue, {l \in DeclaredLanes : l[1] = s}) <= data.pSourceProduction[s]
        /\ \A c \in Range(data.sCustomers) :
              /\ Cardinality(Named(DemandName(c))) = 1
              /\ \A i \in Named(DemandName(c)) :
                    constraints[i] = Constraint(DemandName(c),
                                                {l \in DeclaredLanes : l[2] = c},
                                                ">=", data.pCustomerDemand[c])
              /\ status = "Optimal" =>
                    Total(varValue, {l \in DeclaredLanes : l[2] = c}) >= data.pCustomerDemand[c]
        /\ Cardinality({i \in DOMAIN constraints : constraints[i].sense = "<="}) = Len(data.sSources)
        /\ Cardinality({i \in DOMAIN constraints : constraints[i].sense = ">="}) = Len(data.sCustomers)
        /\ status = "Optimal" => \A l \in DOMAIN varValue : varValue[l] >= 0

\* C5 witness: an Optimal solve in which a source with two lanes ships its whole
\* capacity.
SourceWithTwoLanesSaturated ==
    /\ status = "Optimal"
    /\ \E s \in Range(data.sSources) :
          /\ Cardinality({l \in DeclaredLanes : l[1] = s}) = 2
          /\ Total(varValue, {l \in DeclaredLanes : l[1] = s}) = data.pSourceProduction[s]
          /\ \A l \in DeclaredLanes : l[1] = s => varValue[l] > 0

\* The one sentence a call printed has this phrase, names these places, and its
\* direction follows the sign of price
OneStatement(phrase, places, price) ==
    /\ out.raised = "none"
    /\ Len(out.printed) = 1
    /\ out.printed[1].phrase = phrase
    /\ out.printed[1].places = places
    /\ price < 0 => out.printed[1].direction = "reduced by" /\ out.printed[1].amount = -price
    /\ price > 0 => out.printed[1].direction = "increased in" /\ out.printed[1].amount = price
    /\ price = 0 => out.printed[1].direction = "remain equal"

IncompleteLaneNeverSolved ==
    (\E l \in DOMAIN data.pTransportationCosts :
        \/ l[1] \notin Range(data.sSources)
        \/ l[1] \notin DOMAIN data.pSourceProduction
        \/ l[2] \notin Range(data.sCustomers)
        \/ l[2] \notin DOMAIN data.pCustomerDemand)
    => (pc # "solve" /\ status = "none")

\* What the parse of a constraint name should give back for family n and code
Recovers(n, code) == decoded.number = n /\ decoded.location = code

\* C9 as stated: for every location code, parsing the name of the production limit
\* of s or the demand limit of c gives back the family and the whole code, and
\* parsing the name of the variable of (s, c) gives back exactly the pair (s, c).
NamesRoundTrip ==
    /\ pc = "production limit named" => Recovers(1, codes[1])
    /\ pc = "demand limit named" => Recovers(2, codes[2])
    /\ pc = "variable named" => decoded.list_source_customer = <<codes[1], codes[2]>>

\* C9 amended: the family is always given back; the code of a constraint name is
\* given back exactly when it has three characters, and the pair of a variable
\* name exactly when both codes have three characters (letters or digits).
NamesRoundTripThreeChars ==
    /\ pc = "production limit named" =>
          /\ decoded.number = 1
          /\ decoded.location = codes[1] <=> Len(codes[1]) = 3
    /\ pc = "demand limit named" =>
          /\ decoded.number = 2
          /\ decoded.location = codes[2] <=> Len(codes[2]) = 3
    /\ pc = "variable named" =>
          (decoded.list_source_customer = <<codes[1], codes[2]>>
              <=> (Len(codes[1]) = 3 /\ Len(codes[2]) = 3))

\* C9 witness: the variable name of two different three-character codes parsed
\* back into the pair.
ThreeCharPairRecovered ==
    /\ pc = "variable named"
    /\ Len(codes[1]) = 3
    /\ Len(codes[2]) = 3
    /\ codes[1] # codes[2]
    /\ decoded.list_source_customer = <<codes[1], codes[2]>>

\* C10 as stated: every binding production limit is narrated as additional ton
\* available in its source and every binding demand limit as additional ton
\* supply at its customer, also when a code is both a source and a customer; a
\* binding fixed-flow constraint gets no statement (read on the reports of Optimal
\* solves and on codes of three characters, the width the names are parsed with).
NarratedByFamily ==
    (status = "Optimal" /\ row.table = "constraints" /\ row.level = 0) =>
        /\ \A s \in Range(data.sSources) :
              (Len(s) = 3 /\ row.name = ProductionName(s)) =>
                  OneStatement("additional ton available in", <<s>>, row.price)
        /\ \A c \in Range(data.sCustomers) :
              (Len(c) = 3 /\ row.name = DemandName(c)) =>
                  OneStatement("additional ton supply at", <<c>>, row.price)
        /\ \A l \in DeclaredLanes :
              row.name = FixedName(l[1], l[2]) => out.raised = "none" /\ out.printed = <<>>

\* C10 amended: a binding production or demand limit is narrated with the last
\* three characters of its name as the location, as available in when those are
\* a declared source code and as supply at otherwise: the production limit of a
\* three-character source as available in that source, the demand limit of a
\* three-character customer as supply at that customer unless its code is also
\* a source code, and then as available in; a binding fixed-flow constraint gets
\* no statement.
NarratedByFamilyAndSourceList ==
    (row.table = "constraints" /\ row.level = 0) =>
        /\ \A s \in Range(data.sSources) :
              row.name = ProductionName(s) =>
                  IF Len(s) = 3
                  THEN OneStatement("additional ton available in", <<s>>, row.price)
                  ELSE OneStatement(IF LastThree(s) \in Range(data.sSources)
                                    THEN "additional ton available in"
                                    ELSE "additional ton supply at",
                                    <<LastThree(s)>>, row.price)
        /\ \A c \in Range(data.sCustomers) :
              row.name = DemandName(c) =>
                  OneStatement(IF LastThree(c) \in Range(data.sSources)
                               THEN "additional ton available in"
                               ELSE "additional ton supply at",
                               <<LastThree(c)>>, row.price)
        /\ \A l \in DeclaredLanes :
              row.name = FixedName(l[1], l[2]) => out.raised = "none" /\ out.printed = <<>>

\* C10 witness: Gou is a source and a customer, and the binding demand limit of
\* customer Gou is narrated as additional ton available in Gou.
SharedCodeNarratedAsSource ==
    /\ Gou \in Range(data.sSources)
    /\ Gou \in Range(data.sCustomers)
    /\ row.table = "constraints"
    /\ row.name = DemandName(Gou)
    /\ row.level = 0
    /\ Len(out.printed) = 1
    /\ out.printed[1].phrase = "additional ton available in"
    /\ out.printed[1].places = <<Gou>>

====
